---- MODULE Spec2Model ----
(***************************************************************************)
(* Model of mmolb_parsing's feed event text parser (parse_feed_event) and  *)
(* its renderer (ParsedFeedEventText::unparse).                            *)
(*                                                                         *)
(* A text is a sequence of lexemes.  The lexer behind this representation  *)
(* is fixed: a single space, a punctuation mark (". ! + - 's"), a decimal  *)
(* digit, an emoji glyph, or a maximal word / connective phrase is one     *)
(* lexeme each, so every Rust string over the vocabulary below has exactly *)
(* one lexeme sequence and every literal of the grammar is a sequence of   *)
(* lexemes.  A captured &str slice is a subsequence of the input.          *)
(*                                                                         *)
(* The module also models the inning remapping between Event and RawEvent  *)
(* (game/event.rs), the pair of conversions serde goes through.            *)
(***************************************************************************)
EXTENDS Integers, Sequences, FiniteSets, TLC

VARIABLES event, pc, parsed, tried, source, rendered, inning, raw, restored

vars == <<event, pc, parsed, tried, source, rendered, inning, raw, restored>>

----------------------------------------------------------------------------
(* Generic sequence helpers *)

(* t occurs in s at position i *)
MatchAt(t, s, i) ==
    /\ i + Len(t) - 1 <= Len(s)
    /\ \A k \in 1..Len(t) : s[i + k - 1] = t[k]

StartsWith(s, t) == MatchAt(t, s, 1)

Drop(s, n) == SubSeq(s, n + 1, Len(s))

RECURSIVE JoinWith(_, _)
JoinWith(ss, sep) ==
    IF ss = <<>> THEN <<>>
    ELSE IF Len(ss) = 1 THEN Head(ss)
    ELSE Head(ss) \o sep \o JoinWith(Tail(ss), sep)

Some(x) == <<x>>
None == <<>>

----------------------------------------------------------------------------
(* nom parser results: Err::Error, or Ok((rest, out)) *)

Fail == [ok |-> FALSE]
Ok(rest, out) == [ok |-> TRUE, rest |-> rest, out |-> out]

(* Sequencing of a tuple of parsers: the value of one member is handed to  *)
(* the members after it; when a member fails, the whole tuple fails        *)
Bind(r, K(_)) == IF r.ok THEN K(r) ELSE Fail

(* a value bound once and used by what follows *)
With(x, K(_)) == K(x)

(* the first of two alternatives that matches *)
or_else(r1, r2) == IF r1.ok THEN r1 ELSE r2

(* nom::bytes::complete::tag *)
tag(t, s) == IF StartsWith(s, t) THEN Ok(Drop(s, Len(t)), t) ELSE Fail

(* nom::combinator::opt(tag(t)): never fails *)
opt_tag(t, s) == IF StartsWith(s, t) THEN Ok(Drop(s, Len(t)), Some(t)) ELSE Ok(s, None)

Digits == {"0", "1", "2", "3", "4", "5", "6", "7", "8", "9"}

DigitVal ==
    ("0" :> 0) @@ ("1" :> 1) @@ ("2" :> 2) @@ ("3" :> 3) @@ ("4" :> 4) @@
    ("5" :> 5) @@ ("6" :> 6) @@ ("7" :> 7) @@ ("8" :> 8) @@ ("9" :> 9)

DigitChar == [d \in 0..9 |-> CHOOSE c \in Digits : DigitVal[c] = d]

U8Max == 255
I16Max == 32767
I16Min == -32768

(* The digit loop of nom's unsigned / signed integer parsers: checked      *)
(* multiply-and-add (or subtract, for a negative sign); overflow and a     *)
(* missing first digit are Err::Error, the first non-digit ends the number *)
RECURSIVE int_loop(_, _, _, _, _, _)
int_loop(s, pos, value, neg, lo, hi) ==
    IF pos > Len(s) \/ s[pos] \notin Digits
    THEN IF pos = 1 THEN Fail ELSE Ok(Drop(s, pos - 1), value)
    ELSE LET v == IF neg THEN value * 10 - DigitVal[s[pos]]
                         ELSE value * 10 + DigitVal[s[pos]]
         IN  IF v < lo \/ v > hi THEN Fail
             ELSE int_loop(s, pos + 1, v, neg, lo, hi)

(* nom::character::complete::u8 *)
u8(s) == IF s = <<>> THEN Fail ELSE int_loop(s, 1, 0, FALSE, 0, U8Max)

(* nom::character::complete::i16: optional sign, then digits *)
i16(s) ==
    LET neg == s # <<>> /\ Head(s) = "-"
        i == IF s # <<>> /\ Head(s) \in {"-", "+"} THEN Tail(s) ELSE s
    IN  IF i = <<>> THEN Fail ELSE int_loop(i, 1, 0, neg, I16Min, I16Max)

(* Display of a Rust integer: decimal digits, "-" before a negative one *)
RECURSIVE FormatNat(_)
FormatNat(n) == IF n < 10 THEN <<DigitChar[n]>>
                ELSE FormatNat(n \div 10) \o <<DigitChar[n % 10]>>

FormatInt(n) == IF n < 0 THEN <<"-">> \o FormatNat(0 - n) ELSE FormatNat(n)

----------------------------------------------------------------------------
(* Shared leaf tokenizers (crate::nom_parsing::shared) *)

RECURSIVE find_from(_, _, _)
find_from(marker, s, i) ==
    IF i + Len(marker) - 1 > Len(s) THEN 0
    ELSE IF MatchAt(marker, s, i) THEN i
    ELSE find_from(marker, s, i + 1)

(* capture-until-marker: everything before the first occurrence of the     *)
(* marker is captured, the marker is consumed; no match if it never occurs *)
parse_terminated(marker, s) ==
    LET i == find_from(marker, s, 1)
    IN  IF i = 0 THEN Fail
        ELSE Ok(Drop(s, i - 1 + Len(marker)), SubSeq(s, 1, i - 1))

(* vocabulary lookup of the next word; vocab maps a word to its enum value *)
try_from_word(vocab, s) ==
    IF s # <<>> /\ Head(s) \in DOMAIN vocab
    THEN Ok(Tail(s), vocab[Head(s)])
    ELSE Fail

(* Display of a vocabulary enum: the word that names it *)
ToWord(vocab, v) == CHOOSE w \in DOMAIN vocab : vocab[w] = v

Attribute ==
    ("Awareness" :> "Attribute::Awareness") @@
    ("Ruthlessness" :> "Attribute::Ruthlessness") @@
    ("Unthwackability" :> "Attribute::Unthwackability")

ItemPrefix == ("Lucky" :> "ItemPrefix::Lucky")
ItemType == ("Ring" :> "ItemType::Ring") @@ ("Cap" :> "ItemType::Cap")
ItemSuffix == ("of Fortune" :> "ItemSuffix::Fortune")

Emojis == {":dino:", ":postbox:"}

(* name_eof: the whole remaining input is the name; it is not empty *)
name_eof(s) == IF s = <<>> THEN Fail ELSE Ok(<<>>, s)

(* emoji_team_eof: one emoji glyph, a space, the team name to the end *)
emoji_team_eof(s) ==
    IF Len(s) >= 2 /\ s[1] \in Emojis /\ s[2] = " "
    THEN LET n == name_eof(Drop(s, 2))
         IN  IF n.ok THEN Ok(<<>>, [emoji |-> s[1], name |-> n.out]) ELSE Fail
    ELSE Fail

(* Display of EmojiTeam *)
EmojiTeam_fmt(t) == <<t.emoji, " ">> \o t.name

(* emojiless_item: [prefix " "] item-type [" " suffix] *)
emojiless_item(s) ==
    With(try_from_word(ItemPrefix, s), LAMBDA p :
    With(p.ok /\ tag(<<" ">>, p.rest).ok, LAMBDA hasP :
    Bind(try_from_word(ItemType, IF hasP THEN Drop(s, 2) ELSE s), LAMBDA t :
    With(Bind(tag(<<" ">>, t.rest), LAMBDA sp : try_from_word(ItemSuffix, sp.rest)), LAMBDA x :
    Ok(IF x.ok THEN x.rest ELSE t.rest,
       [prefix |-> IF hasP THEN Some(p.out) ELSE None,
        item |-> t.out,
        suffix |-> IF x.ok THEN Some(x.out) ELSE None])))))

(* Display of EmojilessItem *)
EmojilessItem_fmt(it) ==
    (IF it.prefix # None THEN <<ToWord(ItemPrefix, it.prefix[1]), " ">> ELSE <<>>)
    \o <<ToWord(ItemType, it.item)>>
    \o (IF it.suffix # None THEN <<" ", ToWord(ItemSuffix, it.suffix[1])>> ELSE <<>>)

----------------------------------------------------------------------------
(* The literals of the grammars, as lexeme sequences *)

SP == <<" ">>
DOT == <<".">>
L_gained_plus == <<" ", "gained", " ", "+">>
L_possessive == <<"'s", " ">>
L_was_set == <<" ", "was set to their", " ">>
L_equal_base == <<" ", "became equal to their", " ", "base", " ">>
L_equal_current == <<" ", "became equal to their", " ", "current", " ", "base", " ">>
L_enchanted_plus == <<" ", "was enchanted with", " ", "+">>
L_enchanted == <<" ", "was enchanted with", " ">>
L_a == <<"a", " ">>
L_plus == <<"+">>
L_to == <<" ", "to", " ">>
L_item_success == <<"The", " ", "Item", " ", "Enchantment was a success", "!", " ">>
L_comp_success == <<"The", " ", "Compensatory", " ", "Enchantment was a success", "!", " ">>
L_gained_a_plus == <<" ", "gained", " ", "a", " ", "+">>
L_bonus == <<" ", "bonus", ".">>
L_and_plus == <<" ", "and", " ", "+">>
L_robo == <<" ", "gained", " ", "the ROBO Modification", ".">>
L_to_mound == <<" ", "was moved to the mound", ".", " ">>
L_to_lineup == <<" ", "was sent to the lineup", ".">>
L_to_plate == <<" ", "was sent to the plate", ".", " ">>
L_from_lineup == <<" ", "was pulled from the lineup", ".">>
L_swapped == <<" ", "swapped places with", " ">>
L_star == <<" ", "was hit by a Falling Star", "!">>
L_vs == <<" ", "vs", ".", " ">>
L_dash == <<" ", "-", " ">>
L_final == <<"FINAL", " ">>
L_hyphen == <<"-">>
L_received == <<" ", "received a", " ">>
L_discarded == <<" ", "They discarded their", " ">>

(* the label of a delivery, as the lexemes of the &str the caller passes *)
LabelText(label) ==
    CASE label = "Delivery" -> <<"Delivery">>
      [] label = "Shipment" -> <<"Shipment">>
      [] label = "Special Delivery" -> <<"Special", " ", "Delivery">>

----------------------------------------------------------------------------
(* Variant grammars *)

(* separated_pair(u8, tag(" "), try_from_word) *)
amount_attribute(s) ==
    Bind(u8(s), LAMBDA n :
    Bind(tag(SP, n.rest), LAMBDA t :
    Bind(try_from_word(Attribute, t.rest), LAMBDA a :
    Ok(a.rest, <<n.out, a.out>>))))

(* feed_delivery(label): <player> received a <item> <Label>.[ They discarded their <item>.] *)
feed_delivery(label, s) ==
    Bind(parse_terminated(L_received, s), LAMBDA p :
    Bind(emojiless_item(p.rest), LAMBDA it :
    Bind(tag(SP \o LabelText(label) \o DOT, it.rest), LAMBDA l :
    With(Bind(tag(L_discarded, l.rest), LAMBDA d :
         Bind(emojiless_item(d.rest), LAMBDA di :
         Bind(tag(DOT, di.rest), LAMBDA dd : Ok(dd.rest, di.out)))), LAMBDA disc :
    Ok(IF disc.ok THEN disc.rest ELSE l.rest,
       [player |-> p.out, item |-> it.out,
        discarded |-> IF disc.ok THEN Some(disc.out) ELSE None])))))

hit_by_falling_star(s) ==
    Bind(parse_terminated(L_star, s), LAMBDA p :
    Ok(p.rest, [kind |-> "HitByFallingStar", player |-> p.out]))

(* variant of game_result: the first team and score are taken as the home side *)
game_result_home_first(s) ==
    Bind(parse_terminated(L_vs, s), LAMBDA c1 :
    Bind(emoji_team_eof(c1.out), LAMBDA home :
    Bind(parse_terminated(L_dash, c1.rest), LAMBDA c2 :
    Bind(emoji_team_eof(c2.out), LAMBDA away :
    Bind(tag(L_final, c2.rest), LAMBDA f :
    Bind(u8(f.rest), LAMBDA b :
    Bind(tag(L_hyphen, b.rest), LAMBDA h :
    Bind(u8(h.rest), LAMBDA a :
    Ok(a.rest, [kind |-> "GameResult", home_team |-> home.out, away_team |-> away.out,
                home_score |-> b.out, away_score |-> a.out])))))))))

game_result(s) ==
    Bind(parse_terminated(L_vs, s), LAMBDA c1 :
    Bind(emoji_team_eof(c1.out), LAMBDA away :
    Bind(parse_terminated(L_dash, c1.rest), LAMBDA c2 :
    Bind(emoji_team_eof(c2.out), LAMBDA home :
    Bind(tag(L_final, c2.rest), LAMBDA f :
    Bind(u8(f.rest), LAMBDA a :
    Bind(tag(L_hyphen, a.rest), LAMBDA h :
    Bind(u8(h.rest), LAMBDA b :
    Ok(b.rest, [kind |-> "GameResult", home_team |-> home.out, away_team |-> away.out,
                home_score |-> b.out, away_score |-> a.out])))))))))

(* one repetition of attribute_gain's many1 *)
attribute_gain_item(s) ==
    Bind(opt_tag(SP, s), LAMBDA sp :
    Bind(parse_terminated(L_gained_plus, sp.rest), LAMBDA p :
    Bind(i16(p.rest), LAMBDA n :
    Bind(tag(SP, n.rest), LAMBDA t :
    Bind(try_from_word(Attribute, t.rest), LAMBDA a :
    Bind(tag(DOT, a.rest), LAMBDA d :
    Ok(d.rest, [player_name |-> p.out, amount |-> n.out, attribute |-> a.out])))))))

(* one repetition of attribute_equal_1/2/3's many1; phrase is the grammar's wording *)
attribute_equal_item(phrase, s) ==
    Bind(opt_tag(SP, s), LAMBDA sp :
    Bind(parse_terminated(L_possessive, sp.rest), LAMBDA p :
    Bind(try_from_word(Attribute, p.rest), LAMBDA c :
    Bind(tag(phrase, c.rest), LAMBDA w :
    Bind(try_from_word(Attribute, w.rest), LAMBDA v :
    Bind(tag(DOT, v.rest), LAMBDA d :
    Ok(d.rest, [player_name |-> p.out, changing_attribute |-> c.out,
                value_attribute |-> v.out])))))))

(* the parser a many1 repeats, by the grammar that owns it *)
repeated(g, s) ==
    CASE g = "attribute_gain" -> attribute_gain_item(s)
      [] g = "attribute_equal_1" -> attribute_equal_item(L_was_set, s)
      [] g = "attribute_equal_2" -> attribute_equal_item(L_equal_base, s)
      [] g = "attribute_equal_3" -> attribute_equal_item(L_equal_current, s)

(* variant of many1_loop: each new element is put in front of the others *)
RECURSIVE many1_loop_prepend(_, _, _)
many1_loop_prepend(g, s, acc) ==
    With(repeated(g, s), LAMBDA r :
        IF ~r.ok THEN Ok(s, acc)
        ELSE IF Len(r.rest) = Len(s) THEN Fail
        ELSE many1_loop_prepend(g, r.rest, <<r.out>> \o acc))

(* nom::multi::many1: the loop after the first success; a repetition that  *)
(* fails ends the loop, one that consumes nothing is an error              *)
RECURSIVE many1_loop(_, _, _)
many1_loop(g, s, acc) ==
    With(repeated(g, s), LAMBDA r :
        IF ~r.ok THEN Ok(s, acc)
        ELSE IF Len(r.rest) = Len(s) THEN Fail
        ELSE many1_loop(g, r.rest, Append(acc, r.out)))

many1(g, s) ==
    Bind(repeated(g, s), LAMBDA r : many1_loop(g, r.rest, <<r.out>>))

attribute_gain(s) ==
    Bind(many1("attribute_gain", s), LAMBDA m :
    Ok(m.rest, [kind |-> "AttributeChanges", changes |-> m.out]))

attribute_equal_1(s) ==
    Bind(many1("attribute_equal_1", s), LAMBDA m :
    Ok(m.rest, [kind |-> "AttributeEquals", equals |-> m.out]))

attribute_equal_2(s) ==
    Bind(many1("attribute_equal_2", s), LAMBDA m :
    Ok(m.rest, [kind |-> "AttributeEquals", equals |-> m.out]))

attribute_equal_3(s) ==
    Bind(many1("attribute_equal_3", s), LAMBDA m :
    Ok(m.rest, [kind |-> "AttributeEquals", equals |-> m.out]))

enchantment_s1a(s) ==
    Bind(parse_terminated(L_possessive, s), LAMBDA p :
    Bind(emojiless_item(p.rest), LAMBDA it :
    Bind(tag(L_enchanted_plus, it.rest), LAMBDA e :
    Bind(u8(e.rest), LAMBDA n :
    Bind(tag(L_to, n.rest), LAMBDA t :
    Bind(try_from_word(Attribute, t.rest), LAMBDA a :
    Bind(tag(DOT, a.rest), LAMBDA d :
    Ok(d.rest, [kind |-> "S1Enchantment", player_name |-> p.out, item |-> it.out,
                amount |-> n.out, attribute |-> a.out]))))))))

enchantment_s1b(s) ==
    Bind(tag(L_item_success, s), LAMBDA h :
    Bind(parse_terminated(L_possessive, h.rest), LAMBDA p :
    Bind(emojiless_item(p.rest), LAMBDA it :
    Bind(tag(L_gained_a_plus, it.rest), LAMBDA g :
    Bind(u8(g.rest), LAMBDA n :
    Bind(tag(SP, n.rest), LAMBDA t :
    Bind(try_from_word(Attribute, t.rest), LAMBDA a :
    Bind(tag(L_bonus, a.rest), LAMBDA b :
    Ok(b.rest, [kind |-> "S1Enchantment", player_name |-> p.out, item |-> it.out,
                amount |-> n.out, attribute |-> a.out])))))))))

(* " was enchanted with [a ]+<u8> <attr> and +<u8> <attr>." *)
double_enchant(s) ==
    Bind(tag(L_enchanted, s), LAMBDA e :
    Bind(opt_tag(L_a, e.rest), LAMBDA o :
    Bind(tag(L_plus, o.rest), LAMBDA pl :
    Bind(amount_attribute(pl.rest), LAMBDA one :
    Bind(tag(L_and_plus, one.rest), LAMBDA an :
    Bind(amount_attribute(an.rest), LAMBDA two :
    Bind(tag(DOT, two.rest), LAMBDA d :
    Ok(d.rest, [amount |-> one.out[1], attribute |-> one.out[2],
                enchant_two |-> Some(two.out)]))))))))

(* " gained a +<u8> <attr> bonus." *)
single_enchant(s) ==
    Bind(tag(L_gained_a_plus, s), LAMBDA g :
    Bind(amount_attribute(g.rest), LAMBDA one :
    Bind(tag(L_bonus, one.rest), LAMBDA b :
    Ok(b.rest, [amount |-> one.out[1], attribute |-> one.out[2], enchant_two |-> None]))))

enchantment_s2(s) ==
    Bind(tag(L_item_success, s), LAMBDA h :
    Bind(parse_terminated(L_possessive, h.rest), LAMBDA p :
    Bind(emojiless_item(p.rest), LAMBDA it :
    Bind(double_enchant(it.rest), LAMBDA e :
    Ok(e.rest, [kind |-> "S2Enchantment", player_name |-> p.out, item |-> it.out,
                amount |-> e.out.amount, attribute |-> e.out.attribute,
                enchant_two |-> e.out.enchant_two, compensatory |-> FALSE])))))

(* variant of enchantment_compensatory: the value is not flagged compensatory *)
enchantment_compensatory_not_flagged(s) ==
    Bind(tag(L_comp_success, s), LAMBDA h :
    Bind(parse_terminated(L_possessive, h.rest), LAMBDA p :
    Bind(emojiless_item(p.rest), LAMBDA it :
    Bind(or_else(double_enchant(it.rest), single_enchant(it.rest)), LAMBDA e :
    Ok(e.rest, [kind |-> "S2Enchantment", player_name |-> p.out, item |-> it.out,
                amount |-> e.out.amount, attribute |-> e.out.attribute,
                enchant_two |-> e.out.enchant_two, compensatory |-> FALSE])))))

enchantment_compensatory(s) ==
    Bind(tag(L_comp_success, s), LAMBDA h :
    Bind(parse_terminated(L_possessive, h.rest), LAMBDA p :
    Bind(emojiless_item(p.rest), LAMBDA it :
    Bind(or_else(double_enchant(it.rest), single_enchant(it.rest)), LAMBDA e :
    Ok(e.rest, [kind |-> "S2Enchantment", player_name |-> p.out, item |-> it.out,
                amount |-> e.out.amount, attribute |-> e.out.attribute,
                enchant_two |-> e.out.enchant_two, compensatory |-> TRUE])))))

robo(s) ==
    Bind(parse_terminated(L_robo, s), LAMBDA p :
    Ok(p.rest, [kind |-> "ROBO", player_name |-> p.out]))

take_the_mound(s) ==
    Bind(parse_terminated(L_to_mound, s), LAMBDA a :
    Bind(parse_terminated(L_to_lineup, a.rest), LAMBDA b :
    Ok(b.rest, [kind |-> "TakeTheMound", to_mound_player |-> a.out,
                to_lineup_player |-> b.out])))

take_the_plate(s) ==
    Bind(parse_terminated(L_to_plate, s), LAMBDA a :
    Bind(parse_terminated(L_from_lineup, a.rest), LAMBDA b :
    Ok(b.rest, [kind |-> "TakeThePlate", to_plate_player |-> a.out,
                from_lineup_player |-> b.out])))

(* sentence_eof(inner): the input ends with "." and inner parses what precedes it *)
swap_places(s) ==
    IF s = <<>> \/ s[Len(s)] # "." THEN Fail ELSE
    Bind(parse_terminated(L_swapped, SubSeq(s, 1, Len(s) - 1)), LAMBDA a :
    Bind(name_eof(a.rest), LAMBDA b :
    Ok(<<>>, [kind |-> "SwapPlaces", player_one |-> a.out, player_two |-> b.out])))

----------------------------------------------------------------------------
(* Dispatcher *)

GameOrder ==
    <<"game_result", "Delivery", "Shipment", "Special Delivery", "hit_by_falling_star">>

AugmentOrder ==
    <<"attribute_gain", "enchantment_s1a", "enchantment_s1b", "enchantment_s2",
      "enchantment_compensatory", "robo", "take_the_mound", "take_the_plate",
      "attribute_equal_1", "attribute_equal_2", "attribute_equal_3", "swap_places">>

(* feed_delivery(label).map(|delivery| <variant> { delivery }) *)
delivery_variant(kind, label, s) ==
    Bind(feed_delivery(label, s), LAMBDA d :
    Ok(d.rest, [kind |-> kind, delivery |-> d.out]))

(* the member of an alt tuple, by name *)
candidate(g, s) ==
    CASE g = "game_result" -> game_result(s)
      [] g = "Delivery" -> delivery_variant("Delivery", "Delivery", s)
      [] g = "Shipment" -> delivery_variant("Shipment", "Shipment", s)
      [] g = "Special Delivery" -> delivery_variant("SpecialDelivery", "Special Delivery", s)
      [] g = "hit_by_falling_star" -> hit_by_falling_star(s)
      [] g = "attribute_gain" -> attribute_gain(s)
      [] g = "enchantment_s1a" -> enchantment_s1a(s)
      [] g = "enchantment_s1b" -> enchantment_s1b(s)
      [] g = "enchantment_s2" -> enchantment_s2(s)
      [] g = "enchantment_compensatory" -> enchantment_compensatory(s)
      [] g = "robo" -> robo(s)
      [] g = "take_the_mound" -> take_the_mound(s)
      [] g = "take_the_plate" -> take_the_plate(s)
      [] g = "attribute_equal_1" -> attribute_equal_1(s)
      [] g = "attribute_equal_2" -> attribute_equal_2(s)
      [] g = "attribute_equal_3" -> attribute_equal_3(s)
      [] g = "swap_places" -> swap_places(s)

(* nom::branch::alt over the candidates from position n on: the first      *)
(* candidate that returns Ok ends the search, whatever it left unconsumed. *)
(* The result also lists the candidates that were run.                     *)
RECURSIVE alt_from(_, _, _)
alt_from(cands, s, n) ==
    IF n > Len(cands) THEN [ok |-> FALSE, tried |-> cands]
    ELSE With(candidate(cands[n], s), LAMBDA r :
             IF r.ok
             THEN [ok |-> TRUE, rest |-> r.rest, out |-> r.out,
                   tried |-> SubSeq(cands, 1, n)]
             ELSE alt_from(cands, s, n + 1))

(* variant of alt: a candidate that leaves text unconsumed is passed over *)
RECURSIVE alt_until_full_from(_, _, _)
alt_until_full_from(cands, s, n) ==
    IF n > Len(cands) THEN [ok |-> FALSE, tried |-> cands]
    ELSE With(candidate(cands[n], s), LAMBDA r :
             IF r.ok /\ r.rest = <<>>
             THEN [ok |-> TRUE, rest |-> r.rest, out |-> r.out,
                   tried |-> SubSeq(cands, 1, n)]
             ELSE alt_until_full_from(cands, s, n + 1))

alt_until_full(cands, s) == alt_until_full_from(cands, s, 1)

alt(cands, s) == alt_from(cands, s, 1)

(* variant of game: the Augment grammars are tried after the Game ones *)
game_any_bucket(s) == alt(GameOrder \o AugmentOrder, s)

game(s) == alt(GameOrder, s)

(* variant of augment: swap_places is declared first instead of last *)
augment_reordered(s) ==
    alt(<<"swap_places">> \o SubSeq(AugmentOrder, 1, Len(AugmentOrder) - 1), s)

augment(s) == alt(AugmentOrder, s)

EventTypeNotRecognized(e) == [kind |-> "EventTypeNotRecognized", not_recognized |-> e]

FailedParsingText(event_type, text) ==
    [kind |-> "FailedParsingText", event_type |-> event_type, text |-> text]

ParseError(error, text) == [kind |-> "ParseError", error |-> error, text |-> text]

(* lines 15-18: the early return on an unrecognized classification *)
not_recognized(ev) ==
    [output |-> ParseError(EventTypeNotRecognized(ev.event_type.err), ev.text),
     tried |-> <<>>]

(* lines 21-24: the parser of the event's bucket, run on the text *)
dispatch(event_type, text) ==
    IF event_type = "Game" THEN game(text) ELSE augment(text)

(* variant of finish: result.finish().unwrap(), a fault on Err or leftover *)
finish_unwrap(result, event_type, text) ==
    IF result.ok /\ result.rest = <<>>
    THEN [output |-> result.out, tried |-> result.tried]
    ELSE [output |-> [kind |-> "Panic"], tried |-> result.tried]

(* variant of finish: the ParseError keeps the leftover instead of the text *)
finish_leftover_text(result, event_type, text) ==
    IF result.ok /\ result.rest = <<>>
    THEN [output |-> result.out, tried |-> result.tried]
    ELSE IF result.ok
    THEN [output |-> ParseError(FailedParsingText(event_type, text), result.rest),
          tried |-> result.tried]
    ELSE [output |-> ParseError(FailedParsingText(event_type, text), text),
          tried |-> result.tried]

(* lines 25-37: match result.finish(): a full match is returned, leftover  *)
(* text and Err both become ParseError with FailedParsingText              *)
finish(result, event_type, text) ==
    IF result.ok /\ result.rest = <<>>
    THEN [output |-> result.out, tried |-> result.tried]
    ELSE IF result.ok
    THEN [output |-> ParseError(FailedParsingText(event_type, text), text),
          tried |-> result.tried]
    ELSE [output |-> ParseError(FailedParsingText(event_type, text), text),
          tried |-> result.tried]

(* variant of parse_feed_event: an unrecognized classification falls back  *)
(* to the Augment bucket                                                   *)
parse_feed_event_default_bucket(ev) ==
    IF ~ev.event_type.ok
    THEN finish(dispatch("Augment", ev.text), "Augment", ev.text)
    ELSE finish(dispatch(ev.event_type.val, ev.text), ev.event_type.val, ev.text)

(* parse_feed_event: output is the value returned, tried the grammars run *)
parse_feed_event(ev) ==
    IF ~ev.event_type.ok
    THEN not_recognized(ev)
    ELSE finish(dispatch(ev.event_type.val, ev.text), ev.event_type.val, ev.text)

----------------------------------------------------------------------------
(* Era resolver (crate::time::Breakpoints): a fixed table of thresholds,   *)
(* each a season and an optional day.  A day that is unknown counts as the *)
(* earliest of its season; the threshold itself is already after.          *)

Breakpoints ==
    [S1AttributeEqualChange |-> [season |-> 1, day |-> Some(3)],
     Season1EnchantmentChange |-> [season |-> 1, day |-> Some(2)]]

Breakpoints_after(bp, season, day) ==
    LET t == Breakpoints[bp]
    IN  \/ season > t.season
        \/ /\ season = t.season
           /\ \/ t.day = None
              \/ day # None /\ day[1] >= t.day[1]

Breakpoints_before(bp, season, day) == ~Breakpoints_after(bp, season, day)

----------------------------------------------------------------------------
(* Unparser *)

FeedDelivery_unparse(d, label) ==
    d.player \o L_received \o EmojilessItem_fmt(d.item) \o SP \o LabelText(label) \o DOT
    \o (IF d.discarded # None
        THEN L_discarded \o EmojilessItem_fmt(d.discarded[1]) \o DOT
        ELSE <<>>)

AttributeChange_fmt(c) ==
    c.player_name \o L_gained_plus \o FormatInt(c.amount) \o SP
    \o <<ToWord(Attribute, c.attribute)>> \o DOT

(* variant of AttributeEqual_fmt: the source decides after the threshold,  *)
(* one wording before it                                                   *)
AttributeEqual_fmt_source_after(c, ev, src) ==
    c.player_name \o L_possessive \o <<ToWord(Attribute, c.changing_attribute)>>
    \o (IF ~Breakpoints_after("S1AttributeEqualChange", ev.season, ev.day)
        THEN L_equal_current
        ELSE IF src = "Player" THEN L_was_set
        ELSE L_equal_base)
    \o <<ToWord(Attribute, c.value_attribute)>> \o DOT

(* variant of unparse_TakeTheMound: the two players change places *)
unparse_TakeTheMound_swapped(v) ==
    v.to_lineup_player \o L_to_mound \o v.to_mound_player \o L_to_lineup

(* the TakeTheMound arm of unparse *)
unparse_TakeTheMound(v) ==
    v.to_mound_player \o L_to_mound \o v.to_lineup_player \o L_to_lineup

(* the closure f of the AttributeEquals arm *)
AttributeEqual_fmt(c, ev, src) ==
    c.player_name \o L_possessive \o <<ToWord(Attribute, c.changing_attribute)>>
    \o (IF Breakpoints_after("S1AttributeEqualChange", ev.season, ev.day)
        THEN L_equal_current
        ELSE IF src = "Player" THEN L_was_set
        ELSE L_equal_base)
    \o <<ToWord(Attribute, c.value_attribute)>> \o DOT

unparse(v, ev, src) ==
    CASE v.kind = "ParseError" -> v.text
      [] v.kind = "GameResult" ->
            EmojiTeam_fmt(v.away_team) \o L_vs \o EmojiTeam_fmt(v.home_team) \o L_dash
            \o L_final \o FormatInt(v.away_score) \o L_hyphen \o FormatInt(v.home_score)
      [] v.kind = "Delivery" -> FeedDelivery_unparse(v.delivery, "Delivery")
      [] v.kind = "SpecialDelivery" -> FeedDelivery_unparse(v.delivery, "Special Delivery")
      [] v.kind = "Shipment" -> FeedDelivery_unparse(v.delivery, "Shipment")
      [] v.kind = "AttributeChanges" ->
            JoinWith([i \in 1..Len(v.changes) |-> AttributeChange_fmt(v.changes[i])], SP)
      [] v.kind = "AttributeEquals" ->
            JoinWith([i \in 1..Len(v.equals) |-> AttributeEqual_fmt(v.equals[i], ev, src)], SP)
      [] v.kind = "S1Enchantment" ->
            IF Breakpoints_before("Season1EnchantmentChange", ev.season, ev.day)
            THEN v.player_name \o L_possessive \o EmojilessItem_fmt(v.item)
                 \o L_enchanted_plus \o FormatInt(v.amount) \o L_to
                 \o <<ToWord(Attribute, v.attribute)>> \o DOT
            ELSE L_item_success \o v.player_name \o L_possessive
                 \o EmojilessItem_fmt(v.item) \o L_gained_a_plus \o FormatInt(v.amount)
                 \o SP \o <<ToWord(Attribute, v.attribute)>> \o L_bonus
      [] v.kind = "S2Enchantment" ->
            (IF v.compensatory THEN L_comp_success ELSE L_item_success)
            \o v.player_name \o L_possessive \o EmojilessItem_fmt(v.item)
            \o (IF v.enchant_two # None
                THEN L_enchanted_plus \o FormatInt(v.amount) \o SP
                     \o <<ToWord(Attribute, v.attribute)>> \o L_and_plus
                     \o FormatInt(v.enchant_two[1][1]) \o SP
                     \o <<ToWord(Attribute, v.enchant_two[1][2])>> \o DOT
                ELSE L_gained_a_plus \o FormatInt(v.amount) \o SP
                     \o <<ToWord(Attribute, v.attribute)>> \o L_bonus)
      [] v.kind = "ROBO" -> v.player_name \o L_robo
      [] v.kind = "TakeTheMound" -> unparse_TakeTheMound(v)
      [] v.kind = "TakeThePlate" ->
            v.to_plate_player \o L_to_plate \o v.from_lineup_player \o L_from_lineup
      [] v.kind = "SwapPlaces" -> v.player_one \o L_swapped \o v.player_two \o DOT
      [] v.kind = "HitByFallingStar" -> v.player \o L_star

----------------------------------------------------------------------------
(* Inputs: the event records the caller may pass *)

MaxSegs == 2
MaxReps == 3
MaxSeason == 2
MaxDay == 4

Nancy == <<"Nancy", " ", "Bright">>
Wyatt == <<"Wyatt", " ", "Mason">>
Peoria == [emoji |-> ":dino:", name |-> <<"Peoria", " ", "Monster">>]
Akron == [emoji |-> ":postbox:", name |-> <<"Akron", " ", "Anteaters">>]
LuckyRing == <<"Lucky", " ", "Ring">>
Cap == <<"Cap">>

GainSentence(p, amt, a) == p \o L_gained_plus \o amt \o SP \o <<a>> \o DOT
EqualSentence(p, c, phrase, v) == p \o L_possessive \o <<c>> \o phrase \o <<v>> \o DOT
ResultSentence(t1, t2, a, b) ==
    <<t1.emoji, " ">> \o t1.name \o L_vs \o <<t2.emoji, " ">> \o t2.name \o L_dash
    \o L_final \o a \o L_hyphen \o b
DeliverySentence(p, it, label) == p \o L_received \o it \o SP \o LabelText(label) \o DOT

GameSegments ==
    { ResultSentence(Peoria, Akron, <<"2">>, <<"4">>),
      ResultSentence(Akron, Peoria, <<"0", "7">>, <<"2", "5", "5">>),
      ResultSentence(Peoria, Akron, <<"2", "5", "6">>, <<"0">>),
      DeliverySentence(Nancy, LuckyRing, "Delivery"),
      DeliverySentence(Wyatt, Cap, "Shipment") \o L_discarded \o LuckyRing \o DOT,
      DeliverySentence(Nancy, Cap, "Special Delivery"),
      Wyatt \o L_star,
      L_star }

AugmentSegments ==
    { GainSentence(Nancy, <<"5", "0">>, "Awareness"),
      GainSentence(Wyatt, <<"2">>, "Unthwackability"),
      SP \o GainSentence(Wyatt, <<"1">>, "Ruthlessness"),
      GainSentence(Nancy, <<"+", "0", "7">>, "Awareness"),
      GainSentence(Wyatt, <<"4", "0", "0", "0", "0">>, "Awareness"),
      EqualSentence(Nancy, "Awareness", L_was_set, "Ruthlessness"),
      EqualSentence(Nancy, "Awareness", L_equal_base, "Ruthlessness"),
      EqualSentence(Nancy, "Awareness", L_equal_current, "Ruthlessness"),
      SP \o EqualSentence(Wyatt, "Ruthlessness", L_equal_base, "Awareness"),
      Nancy \o L_possessive \o LuckyRing \o L_enchanted_plus \o <<"5">> \o L_to
          \o <<"Awareness">> \o DOT,
      L_item_success \o Nancy \o L_possessive \o Cap \o L_gained_a_plus \o <<"5">> \o SP
          \o <<"Awareness">> \o L_bonus,
      L_item_success \o Wyatt \o L_possessive \o Cap \o L_enchanted_plus \o <<"5">> \o SP
          \o <<"Awareness">> \o L_and_plus \o <<"3">> \o SP \o <<"Ruthlessness">> \o DOT,
      L_item_success \o Wyatt \o L_possessive \o Cap \o L_enchanted \o L_a \o L_plus
          \o <<"5">> \o SP \o <<"Awareness">> \o L_and_plus \o <<"3">> \o SP
          \o <<"Ruthlessness">> \o DOT,
      L_comp_success \o Nancy \o L_possessive \o Cap \o L_enchanted_plus \o <<"5">> \o SP
          \o <<"Awareness">> \o L_and_plus \o <<"3">> \o SP \o <<"Ruthlessness">> \o DOT,
      L_comp_success \o Nancy \o L_possessive \o LuckyRing \o L_gained_a_plus \o <<"9">>
          \o SP \o <<"Awareness">> \o L_bonus,
      Wyatt \o L_robo,
      Nancy \o L_to_mound \o Wyatt \o L_to_lineup,
      Nancy \o L_to_plate \o Wyatt \o L_from_lineup,
      Nancy \o L_swapped \o Wyatt \o DOT,
      Wyatt \o L_swapped,
      DOT,
      SP }

Segments == GameSegments \cup AugmentSegments

(* the sentences and fragments that are also put together into longer texts *)
CoreSegments ==
    { ResultSentence(Peoria, Akron, <<"2">>, <<"4">>),
      L_star,
      GainSentence(Nancy, <<"5", "0">>, "Awareness"),
      SP \o GainSentence(Wyatt, <<"1">>, "Ruthlessness"),
      EqualSentence(Nancy, "Awareness", L_equal_base, "Ruthlessness"),
      Wyatt \o L_robo,
      Nancy \o L_to_mound \o Wyatt \o L_to_lineup,
      Wyatt \o L_swapped,
      SP \o EqualSentence(Wyatt, "Ruthlessness", L_equal_base, "Awareness"),
      L_item_success \o Nancy \o L_possessive \o Cap \o L_gained_a_plus \o <<"5">> \o SP
          \o <<"Awareness">> \o L_bonus,
      Nancy \o L_swapped \o Wyatt \o DOT,
      DOT,
      SP }

(* all texts made of at most n segments *)
RECURSIVE TextsUpTo(_, _)
TextsUpTo(segs, n) ==
    IF n = 0 THEN {<<>>}
    ELSE LET shorter == TextsUpTo(segs, n - 1)
         IN  shorter \cup {t \o sg : t \in shorter, sg \in segs}

EventTypes ==
    { [ok |-> TRUE, val |-> "Game"], [ok |-> TRUE, val |-> "Augment"],
      [ok |-> FALSE, err |-> "Season"], [ok |-> FALSE, err |-> "Lottery"] }

Sources == {"Player", "Umpire"}

Seasons == 0..MaxSeason
Days == {None} \cup {Some(d) : d \in 0..MaxDay}
Eras == [season : Seasons, day : Days]
EarlyEra == [season |-> 0, day |-> None]
LateEra == [season |-> MaxSeason, day |-> Some(MaxDay)]

----------------------------------------------------------------------------
(* State machine: an event is parsed, the parsed value is rendered *)

Unset == [kind |-> "Unset"]

InitWith(texts, eras) ==
    /\ event \in {[text |-> t, event_type |-> ty, season |-> e.season, day |-> e.day] :
                    t \in texts, ty \in EventTypes, e \in eras}
    /\ pc = "start"
    /\ parsed = Unset
    /\ tried = <<>>
    /\ source = "Unset"
    /\ rendered = <<>>
    /\ inning = Unset
    /\ raw = Unset
    /\ restored = Unset

(* every sentence of the two buckets and every text of at most MaxSegs core *)
(* segments, in an early and in a late era                                 *)
Init == InitWith(Segments \cup TextsUpTo(CoreSegments, MaxSegs), {EarlyEra, LateEra})

Parse ==
    /\ pc = "start"
    /\ \E r \in {parse_feed_event(event)} :
          /\ parsed' = r.output
          /\ tried' = r.tried
    /\ pc' = "parsed"
    /\ UNCHANGED <<event, source, rendered, inning, raw, restored>>

Unparse ==
    /\ pc = "parsed"
    /\ \E src \in Sources :
          /\ source' = src
          /\ rendered' = unparse(parsed, event, src)
    /\ pc' = "rendered"
    /\ UNCHANGED <<event, parsed, tried, inning, raw, restored>>

Next == Parse \/ Unparse

Spec == Init /\ [][Next]_vars

----------------------------------------------------------------------------
(* Specifications over narrower inputs *)

(* AttributeEquals texts: up to MaxReps sentences of one wording, in every *)
(* (season, day) around the thresholds                                     *)
EqualPhrases == {L_was_set, L_equal_base, L_equal_current}

EqualRun(phrase, n) ==
    JoinWith([i \in 1..n |->
                 IF i % 2 = 1
                 THEN EqualSentence(Nancy, "Awareness", phrase, "Ruthlessness")
                 ELSE EqualSentence(Wyatt, "Ruthlessness", phrase, "Awareness")], SP)

EqualTexts == {EqualRun(ph, n) : ph \in EqualPhrases, n \in 1..MaxReps}

InitEra == InitWith(EqualTexts, Eras)

SpecEra == InitEra /\ [][Next]_vars

(* AttributeChanges texts: n sentences "<player> gained +<int> <attribute>." *)
(* joined by single spaces, 1 <= n <= MaxReps                              *)
GainParams ==
    { [player_name |-> Nancy, amount |-> 50, attribute |-> "Attribute::Awareness"],
      [player_name |-> Wyatt, amount |-> 2, attribute |-> "Attribute::Unthwackability"],
      [player_name |-> Wyatt, amount |-> 1, attribute |-> "Attribute::Ruthlessness"] }

RECURSIVE SeqsOfLen(_, _)
SeqsOfLen(S, n) ==
    IF n = 0 THEN {<<>>}
    ELSE {Append(q, x) : q \in SeqsOfLen(S, n - 1), x \in S}

GainParamSeqs == UNION {SeqsOfLen(GainParams, n) : n \in 1..MaxReps}

GainText(ps) ==
    JoinWith([i \in 1..Len(ps) |->
                 GainSentence(ps[i].player_name, FormatInt(ps[i].amount),
                              ToWord(Attribute, ps[i].attribute))], SP)

InitGains == InitWith({GainText(ps) : ps \in GainParamSeqs}, {EarlyEra, LateEra})

SpecGains == InitGains /\ [][Next]_vars

(* Game result texts "<emoji1> <name1> vs. <emoji2> <name2> - FINAL <a>-<b>" *)
Teams == {Peoria, Akron}
Scores == {0, 2, 4, 9, 10, 99, 100, U8Max}

ResultText(t1, t2, a, b) == ResultSentence(t1, t2, FormatInt(a), FormatInt(b))

InitGameResult ==
    InitWith({ResultText(t1, t2, a, b) : t1 \in Teams, t2 \in Teams, a \in Scores,
              b \in Scores}, {EarlyEra})

SpecGameResult == InitGameResult /\ [][Next]_vars

(* Enchantment texts: what unparse emits for every S2Enchantment value over *)
(* a small vocabulary, the single-attribute value without the compensatory *)
(* flag included, and the same texts with the optional "a " and with an    *)
(* amount that overflows u8                                                *)
EnchantItems ==
    { [prefix |-> Some("ItemPrefix::Lucky"), item |-> "ItemType::Ring", suffix |-> None],
      [prefix |-> None, item |-> "ItemType::Cap", suffix |-> Some("ItemSuffix::Fortune")] }

EnchantAmounts == {5, U8Max}

S2Values ==
    [kind : {"S2Enchantment"}, player_name : {Nancy, Wyatt}, item : EnchantItems,
     amount : EnchantAmounts, attribute : {"Attribute::Awareness"},
     enchant_two : {None, Some(<<3, "Attribute::Ruthlessness">>)},
     compensatory : BOOLEAN]

S2Text(v) == unparse(v, EarlyEra, "Player")

EnchantTexts ==
    {S2Text(v) : v \in S2Values}
    \cup {L_item_success \o Nancy \o L_possessive \o Cap \o L_enchanted \o L_a \o L_plus
            \o <<"5">> \o SP \o <<"Awareness">> \o L_and_plus \o <<"3">> \o SP
            \o <<"Ruthlessness">> \o DOT,
          L_comp_success \o Nancy \o L_possessive \o Cap \o L_gained_a_plus
            \o <<"2", "5", "6">> \o SP \o <<"Awareness">> \o L_bonus,
          L_item_success \o Nancy \o L_possessive \o Cap \o L_gained_a_plus
            \o <<"2", "5", "6">> \o SP \o <<"Awareness">> \o L_bonus,
          Nancy \o L_possessive \o Cap \o L_enchanted_plus \o <<"5">> \o L_to
            \o <<"Awareness">> \o DOT}

InitEnchant == InitWith(EnchantTexts, {EarlyEra, LateEra})

SpecEnchant == InitEnchant /\ [][Next]_vars

----------------------------------------------------------------------------
(* Inning remapping (game/event.rs): Event -> RawEvent -> Event *)

(* enums::Side and its u8 code *)
Side == ("Side::Away" :> 0) @@ ("Side::Home" :> 1)

(* u8::try_from / Side::try_from: the side a code stands for, if any *)
Side_try_from(code) ==
    IF \E sd \in DOMAIN Side : Side[sd] = code
    THEN Some(CHOOSE sd \in DOMAIN Side : Side[sd] = code)
    ELSE None

BeforeGame == [kind |-> "BeforeGame"]
DuringGame(number, side) == [kind |-> "DuringGame", number |-> number, batting_side |-> side]
AfterGame(n) == [kind |-> "AfterGame", final_inning_number |-> n]

Panic == [panic |-> TRUE]
Done(v) == [panic |-> FALSE, val |-> v]

(* u8 addition: with overflow checks the build panics, without them the    *)
(* sum wraps; both builds are outcomes                                     *)
add_u8(a, b) ==
    IF a + b > U8Max THEN {Panic, Done((a + b) % (U8Max + 1))} ELSE {Done(a + b)}

(* u8 subtraction, likewise *)
sub_u8(a, b) ==
    IF a - b < 0 THEN {Panic, Done((a - b) % (U8Max + 1))} ELSE {Done(a - b)}

RawInning(number, side) == [inning |-> number, inning_side |-> side]

(* variant of into_raw: the final inning number is stored as it is *)
into_raw_identity(i) ==
    CASE i.kind = "BeforeGame" -> {Done(RawInning(0, 1))}
      [] i.kind = "DuringGame" -> {Done(RawInning(i.number, Side[i.batting_side]))}
      [] i.kind = "AfterGame" -> {Done(RawInning(i.final_inning_number, 2))}

(* impl From<Event> for RawEvent, lines 100-105: the outcomes of the match *)
into_raw(i) ==
    CASE i.kind = "BeforeGame" -> {Done(RawInning(0, 1))}
      [] i.kind = "DuringGame" -> {Done(RawInning(i.number, Side[i.batting_side]))}
      [] i.kind = "AfterGame" /\ i.final_inning_number = 1 -> {Done(RawInning(0, 2))}
      [] i.kind = "AfterGame" /\ i.final_inning_number # 1 ->
            {IF o.panic THEN Panic ELSE Done(RawInning(o.val, 2)) :
                o \in add_u8(i.final_inning_number, 1)}

(* impl From<RawEvent> for Event, lines 85-90: the arms in their order *)
from_raw(r) ==
    IF r.inning = 0 /\ r.inning_side = 1 THEN {Done(BeforeGame)}
    ELSE IF r.inning = 0 /\ r.inning_side = 2 THEN {Done(AfterGame(1))}
    ELSE IF r.inning_side = 2
    THEN {IF o.panic THEN Panic ELSE Done(AfterGame(o.val)) : o \in sub_u8(r.inning, 1)}
    ELSE IF Side_try_from(r.inning_side) = None THEN {Panic}
    ELSE {Done(DuringGame(r.inning, Side_try_from(r.inning_side)[1]))}

InningNumbers == 0..U8Max

Innings ==
    {BeforeGame}
    \cup {DuringGame(n, sd) : n \in InningNumbers, sd \in DOMAIN Side}
    \cup {AfterGame(n) : n \in InningNumbers}

InitInning ==
    /\ inning \in Innings
    /\ pc = "event"
    /\ raw = Unset
    /\ restored = Unset
    /\ event = Unset
    /\ parsed = Unset
    /\ tried = <<>>
    /\ source = "Unset"
    /\ rendered = <<>>

(* serialization: Event is turned into RawEvent *)
IntoRaw ==
    /\ pc = "event"
    /\ \E o \in into_raw(inning) :
          IF o.panic
          THEN pc' = "panic" /\ raw' = raw
          ELSE pc' = "raw" /\ raw' = o.val
    /\ UNCHANGED <<inning, restored, event, parsed, tried, source, rendered>>

(* deserialization: RawEvent is turned into Event *)
FromRaw ==
    /\ pc = "raw"
    /\ \E o \in from_raw(raw) :
          IF o.panic
          THEN pc' = "panic" /\ restored' = restored
          ELSE pc' = "restored" /\ restored' = o.val
    /\ UNCHANGED <<inning, raw, event, parsed, tried, source, rendered>>

NextInning == IntoRaw \/ FromRaw

SpecInning == InitInning /\ [][NextInning]_vars

----------------------------------------------------------------------------
(* Properties *)

OrderOf(event_type) == IF event_type = "Game" THEN GameOrder ELSE AugmentOrder

(* parse_feed_event has returned and its value has not been used yet *)
Called == pc = "parsed"

Recognized == event.event_type.ok

(* outcome of each candidate of the event's bucket, run alone on the whole text *)
Attempts ==
    LET order == OrderOf(event.event_type.val)
    IN  [i \in 1..Len(order) |-> candidate(order[i], event.text)]

NoMatch(r) == ~r.ok
PartialMatch(r) == r.ok /\ r.rest # <<>>
FullMatch(r) == r.ok /\ r.rest = <<>>

FailedParse == ParseError(FailedParsingText(event.event_type.val, event.text), event.text)

VariantKinds ==
    {"ParseError", "GameResult", "Delivery", "Shipment", "SpecialDelivery",
     "AttributeChanges", "AttributeEquals", "S1Enchantment", "S2Enchantment", "ROBO",
     "TakeTheMound", "TakeThePlate", "SwapPlaces", "HitByFallingStar"}

(* C1: parse_feed_event is total: whatever the text, the classification    *)
(* and the season/day, the call returns one value, which is a structured   *)
(* variant or a ParseError with one of the two reasons; no fault reaches   *)
(* the caller.                                                             *)
C1_Total ==
    LET r == parse_feed_event(event).output
    IN  /\ r.kind \in VariantKinds
        /\ r.kind = "ParseError" =>
              r.error.kind \in {"EventTypeNotRecognized", "FailedParsingText"}
        /\ Called => parsed = r

(* a score that overflows u8 was parsed under the Game classification *)
C1_Witness ==
    /\ pc = "parsed"
    /\ event.event_type = [ok |-> TRUE, val |-> "Game"]
    /\ event.text = ResultSentence(Peoria, Akron, <<"2", "5", "6">>, <<"0">>)
    /\ parsed.kind = "ParseError"

(* C2: when the candidate reached in the bucket's order matches a prefix   *)
(* of the text and leaves text unconsumed, the result is ParseError with   *)
(* FailedParsingText, not the truncated value, and no later candidate is   *)
(* run, even one that matches the whole text.                              *)
C2_LeftoverRejection ==
    (Called /\ Recognized) =>
        LET att == Attempts
        IN  \A i \in DOMAIN att :
                (PartialMatch(att[i]) /\ \A j \in 1..(i - 1) : NoMatch(att[j])) =>
                    /\ parsed = FailedParse
                    /\ tried = SubSeq(OrderOf(event.event_type.val), 1, i)

(* attribute_gain left text over and robo, declared later, matches it all *)
C2_Witness ==
    /\ pc = "parsed"
    /\ event.event_type = [ok |-> TRUE, val |-> "Augment"]
    /\ PartialMatch(attribute_gain(event.text))
    /\ FullMatch(robo(event.text))
    /\ parsed.kind = "ParseError"
    /\ tried = <<"attribute_gain">>

(* C3: a ParseError keeps the event's text untouched and renders to        *)
(* exactly that text, whatever the reason, the season, the day and the     *)
(* source.                                                                 *)
C3_RoundTripOnFailure ==
    (pc # "start" /\ parsed.kind = "ParseError") =>
        /\ parsed.text = event.text
        /\ pc = "rendered" => rendered = event.text

(* a parse that failed on leftover text was rendered *)
C3_Witness ==
    /\ pc = "rendered"
    /\ event.event_type = [ok |-> TRUE, val |-> "Augment"]
    /\ parsed.kind = "ParseError"
    /\ PartialMatch(attribute_gain(event.text))
    /\ rendered = event.text

(* C4: an unrecognized classification yields ParseError with               *)
(* EventTypeNotRecognized carrying the token and the original text, and    *)
(* no grammar of either bucket is run, whatever the text.                  *)
C4_UnknownClassification ==
    (pc # "start" /\ ~Recognized) =>
        /\ parsed = ParseError(EventTypeNotRecognized(event.event_type.err), event.text)
        /\ tried = <<>>

(* an unrecognized event whose text an Augment grammar matches in full *)
C4_Witness ==
    /\ pc = "parsed"
    /\ ~Recognized
    /\ FullMatch(augment(event.text))
    /\ parsed.kind = "ParseError"

(* C5: when every candidate of the event's bucket reports no match, the    *)
(* result is ParseError with FailedParsingText carrying the coarse type    *)
(* and the untouched text, and exactly the candidates of that bucket were  *)
(* run.                                                                    *)
C5_GrammarExhausted ==
    (Called /\ Recognized) =>
        LET att == Attempts
        IN  (\A i \in DOMAIN att : NoMatch(att[i])) =>
                /\ parsed = FailedParse
                /\ tried = OrderOf(event.event_type.val)

(* a Game event whose text only an Augment grammar matches *)
C5_Witness ==
    /\ pc = "parsed"
    /\ event.event_type = [ok |-> TRUE, val |-> "Game"]
    /\ FullMatch(augment(event.text))
    /\ parsed = FailedParse
    /\ tried = GameOrder

(* C6: the candidates are run in the declared order and only a no-match    *)
(* moves on to the next; the first candidate to match ends the search, a   *)
(* structured result is that candidate's value, and of two grammars that   *)
(* both match the text the one declared first decides.                     *)
C6_PriorityOrder ==
    (Called /\ Recognized) =>
        LET order == OrderOf(event.event_type.val)
            att == Attempts
            k == Len(tried)
        IN  /\ k <= Len(order)
            /\ tried = SubSeq(order, 1, k)
            /\ \A j \in 1..(k - 1) : NoMatch(att[j])
            /\ k < Len(order) => (k >= 1 /\ att[k].ok)
            /\ parsed.kind # "ParseError" => (k >= 1 /\ att[k] = Ok(<<>>, parsed))
            /\ \A i \in DOMAIN att : \A j \in (i + 1)..Len(order) :
                  ( /\ FullMatch(att[i])
                    /\ FullMatch(att[j])
                    /\ \A h \in 1..(i - 1) : NoMatch(att[h]) ) =>
                      (parsed = att[i].out /\ k = i)

(* attribute_gain and swap_places both match the whole text *)
C6_Witness ==
    /\ pc = "parsed"
    /\ event.event_type = [ok |-> TRUE, val |-> "Augment"]
    /\ FullMatch(attribute_gain(event.text))
    /\ FullMatch(swap_places(event.text))
    /\ parsed.kind = "AttributeChanges"

(* number of places where the literal t occurs in the text s *)
Occurrences(t, s) == Cardinality({i \in 1..Len(s) : MatchAt(t, s, i)})

SingleWordingKinds ==
    {"ROBO", "TakeTheMound", "TakeThePlate", "SwapPlaces", "HitByFallingStar"}

ExpectedPhrase ==
    IF Breakpoints_after("S1AttributeEqualChange", event.season, event.day)
    THEN L_equal_current
    ELSE IF source = "Player" THEN L_was_set ELSE L_equal_base

(* C8 as stated: before the threshold the wording does not depend on the   *)
(* source, after the threshold umpire and player narration differ.         *)
C8_SourceDecidesAfter ==
    (pc = "rendered" /\ parsed.kind = "AttributeEquals") =>
        LET player == unparse(parsed, event, "Player")
            umpire == unparse(parsed, event, "Umpire")
        IN  IF Breakpoints_after("S1AttributeEqualChange", event.season, event.day)
            THEN player # umpire
            ELSE player = umpire

(* C8, amended: after the S1AttributeEqualChange threshold every entry is  *)
(* rendered "became equal to their current base" whatever the source; not  *)
(* after it, "was set to their" under player narration and "became equal   *)
(* to their base" otherwise; one wording for all entries of a sequence, at *)
(* the threshold and on either side of it.                                 *)
C8_EraRendering ==
    (pc = "rendered" /\ parsed.kind = "AttributeEquals") =>
        \A ph \in EqualPhrases :
            Occurrences(ph, rendered) = IF ph = ExpectedPhrase THEN Len(parsed.equals) ELSE 0

(* two entries rendered under umpire narration exactly at the threshold *)
C8_Witness ==
    /\ pc = "rendered"
    /\ parsed.kind = "AttributeEquals"
    /\ Len(parsed.equals) >= 2
    /\ event.season = Breakpoints["S1AttributeEqualChange"].season
    /\ event.day = Breakpoints["S1AttributeEqualChange"].day
    /\ source = "Umpire"
    /\ Occurrences(L_equal_current, rendered) = Len(parsed.equals)

(* C9: a text of n >= 1 sentences "<player> gained +<int> <attribute>."    *)
(* parses, as an Augment event, to AttributeChanges with exactly those n   *)
(* entries in input order, none reordered, merged or dropped as a          *)
(* duplicate; an AttributeChanges sequence is never empty.                 *)
C9_RepetitionOrder ==
    Called =>
        /\ (event.event_type.ok /\ event.event_type.val = "Augment") =>
              \A ps \in GainParamSeqs :
                  event.text = GainText(ps) =>
                      parsed = [kind |-> "AttributeChanges", changes |-> ps]
        /\ parsed.kind = "AttributeChanges" => Len(parsed.changes) >= 1

(* three sentences, the first and the third the same, the second another *)
C9_Witness ==
    /\ pc = "parsed"
    /\ parsed.kind = "AttributeChanges"
    /\ Len(parsed.changes) = 3
    /\ parsed.changes[1] = parsed.changes[3]
    /\ parsed.changes[1] # parsed.changes[2]

(* C10: "<emoji1> <name1> vs. <emoji2> <name2> - FINAL <a>-<b>" parses, as *)
(* a Game event, to GameResult with the first team and score as the away   *)
(* side and the second as the home side, and that value renders to         *)
(* "<away> vs. <home> - FINAL <away_score>-<home_score>", the text itself. *)
C10_GameResultConvention ==
    (pc # "start" /\ event.event_type.ok /\ event.event_type.val = "Game") =>
        \A t1 \in Teams, t2 \in Teams, a \in Scores, b \in Scores :
            event.text = ResultText(t1, t2, a, b) =>
                /\ parsed = [kind |-> "GameResult", home_team |-> t2, away_team |-> t1,
                             home_score |-> b, away_score |-> a]
                /\ pc = "rendered" =>
                      rendered = EmojiTeam_fmt(t1) \o L_vs \o EmojiTeam_fmt(t2) \o L_dash
                                 \o L_final \o FormatInt(a) \o L_hyphen \o FormatInt(b)

(* the pinned literal: Peoria 2, Akron 4, parsed and rendered *)
C10_Witness ==
    /\ pc = "rendered"
    /\ event.text = ResultText(Peoria, Akron, 2, 4)
    /\ parsed.kind = "GameResult"
    /\ parsed.away_team = Peoria
    /\ parsed.home_score = 4

(* C11: an S2Enchantment returned by parse_feed_event is flagged           *)
(* compensatory exactly when the text began with "The Compensatory         *)
(* Enchantment was a success! ", and one that is not flagged always has    *)
(* its second (amount, attribute) pair; the text unparse emits for an      *)
(* unflagged S2Enchantment without a second pair is returned, under the    *)
(* Augment classification, as S1Enchantment and so not as that value.      *)
C11_EnchantmentShape ==
    Called =>
        /\ parsed.kind = "S2Enchantment" =>
              /\ parsed.compensatory <=> StartsWith(event.text, L_comp_success)
              /\ ~parsed.compensatory => parsed.enchant_two # None
        /\ (event.event_type.ok /\ event.event_type.val = "Augment") =>
              \A v \in S2Values :
                  (~v.compensatory /\ v.enchant_two = None /\ event.text = S2Text(v)) =>
                      /\ parsed = [kind |-> "S1Enchantment", player_name |-> v.player_name,
                                   item |-> v.item, amount |-> v.amount,
                                   attribute |-> v.attribute]
                      /\ parsed # v

(* the text of an unflagged single-attribute S2Enchantment was parsed *)
C11_Witness ==
    /\ pc = "parsed"
    /\ event.event_type = [ok |-> TRUE, val |-> "Augment"]
    /\ \E v \in S2Values :
          ~v.compensatory /\ v.enchant_two = None /\ event.text = S2Text(v)
    /\ parsed.kind = "S1Enchantment"

(* a compensatory single-attribute text was parsed to a flagged value *)
C11_WitnessCompensatory ==
    /\ pc = "parsed"
    /\ parsed.kind = "S2Enchantment"
    /\ parsed.compensatory
    /\ parsed.enchant_two = None

(* C12: for every inning value of an Event, the conversion Event ->        *)
(* RawEvent -> Event completes without u8 overflow or a failed unwrap and  *)
(* returns the same inning value.                                          *)
C12_InningRoundTrip ==
    /\ pc # "panic"
    /\ pc = "restored" => restored = inning

(* C12, the part that holds: the round trip completes and returns the same *)
(* inning except for AfterGame with final inning 255 and for DuringGame    *)
(* with number 0 and the side whose code is 1.                             *)
C12_InningRoundTripElsewhere ==
    (/\ inning # AfterGame(U8Max)
     /\ ~(inning.kind = "DuringGame" /\ inning.number = 0 /\ Side[inning.batting_side] = 1)) =>
        C12_InningRoundTrip

(* AfterGame{255}: the build without overflow checks gave back AfterGame{1} *)
C12_WitnessWrapped ==
    /\ pc = "restored"
    /\ inning = AfterGame(U8Max)
    /\ raw = RawInning(0, 2)
    /\ restored = AfterGame(1)

(* AfterGame{255}: the build with overflow checks panicked *)
C12_WitnessPanic ==
    /\ pc = "panic"
    /\ inning = AfterGame(U8Max)

(* DuringGame{0, side coded 1} came back as BeforeGame *)
C12_WitnessBeforeGame ==
    /\ pc = "restored"
    /\ inning.kind = "DuringGame"
    /\ inning.number = 0
    /\ restored = BeforeGame

====
